---- MODULE Spec2Model ----
(***************************************************************************)
(* ContainerAsync (src/src/core/container_async.rs): the handle of a       *)
(* running docker container driven through the DockerAsync client trait.   *)
(* The model covers construction (new / block_until_ready), the auxiliary  *)
(* operations (get_host_port, start, stop, rm) and the destructor          *)
(* (Drop::drop -> block_on(drop_async)), together with the part of the     *)
(* docker runtime the handle talks to: the container's state, its two log  *)
(* streams and its port mappings.                                          *)
(***************************************************************************)
EXTENDS Integers, Sequences, FiniteSets, TLC

----------------------------------------------------------------------------
(* Bounds *)

MaxConds == 2        \* longest ready_conditions() list
MaxOps == 2          \* most auxiliary calls (start, stop, get_host_port) on a handle

\* last instant of the clock: room for every condition to be a sleep
MaxTime == MaxConds

----------------------------------------------------------------------------
(* Values *)

Ids == {"c1", "c2"}                  \* container ids handed out by the runtime
Policies == {"Remove", "Keep"}       \* env::Command
Schedulers == {"multi", "single"}    \* tokio flavours the destructor may run on

Pattern == <<"o", "k">>              \* the message a log condition waits for
\* what a container writes to a stream, line by line, if it lives long
\* enough: a line with a prefix of the message only, then one containing it
Transcript == << <<"o">>, <<"n", "o", "k">> >>

InternalPorts == {27017, 9999}
HostPorts == {49153, 49154}
NoPort == 0                          \* map_to_host_port(..) = None

\* panic payloads; id and cond are what the payload says about the container
NoFailure == [kind |-> "none", msg |-> "", id |-> "", cond |-> 0]
NoResult == [seq |-> 0, port |-> 0, outcome |-> "none", value |-> 0]

WaitStdOut == [kind |-> "StdOutMessage", message |-> Pattern, length |-> 0]
WaitStdErr == [kind |-> "StdErrMessage", message |-> Pattern, length |-> 0]
WaitDuration == [kind |-> "Duration", message |-> <<>>, length |-> 1]
WaitNothing == [kind |-> "Nothing", message |-> <<>>, length |-> 0]

\* WaitFor, the closed set of readiness conditions matched in block_until_ready
WaitFor == {WaitStdOut, WaitStdErr, WaitDuration, WaitNothing}

SeqsUpTo(S, n) == UNION {[1..k -> S] : k \in 0..n}

VARIABLES
    pc,          \* pc[h]: where handle h is in its life
    command,     \* command[h]: the env::Command of the handle
    conds,       \* conds[h]: image.ready_conditions()
    limit,       \* how many auxiliary calls the caller makes on a handle at most
    faulty,      \* whether calls on the docker client can fail
    idx,         \* idx[h]: position of the for loop of block_until_ready
    awaiting,    \* awaiting[h]: conditions whose wait has begun and not resolved
    resolved,    \* resolved[h]: conditions whose wait has resolved
    wakeAt,      \* wakeAt[h]: deadline of the sleep in progress
    returned,    \* returned[h]: new() has handed the handle to its caller
    errAt,       \* errAt[h]: the condition whose wait_for_message returned Err
    failure,     \* failure[h]: payload of the panic raised on the handle's flow
    result,      \* result[h]: value of the last get_host_port
    ops,         \* ops[h]: auxiliary calls made so far
    inflight,    \* inflight[h]: the rm call issued by the destructor is pending
    sched,       \* sched[h]: scheduler the destructor runs on
    calls,       \* every call made on the docker client, in order
    sandbox,     \* sandbox[id]: state of the container in the runtime
    stdout,      \* stdout[id]: lines written to the container's stdout
    stderr,      \* stderr[id]: lines written to the container's stderr
    ports,       \* ports[id]: the runtime's port mappings of the container
    now          \* the clock tokio::time::sleep reads

vars == <<pc, command, conds, limit, faulty, idx, awaiting, resolved, wakeAt, returned, errAt, failure,
          result, ops, inflight, sched, calls, sandbox, stdout, stderr, ports, now>>

handleVars == <<pc, idx, awaiting, resolved, wakeAt, returned, errAt, failure, result,
                ops, inflight, sched>>
runtimeVars == <<sandbox, stdout, stderr, ports>>

----------------------------------------------------------------------------
(* Pure helpers *)

\* str::contains: pat occurs in line as a contiguous substring
Contains(line, pat) ==
    \E i \in 0..(Len(line) - Len(pat)) :
        \A j \in 1..Len(pat) : line[i + j] = pat[j]

\* Ports::map_to_host_port: the host port of an internal port, or None
map_to_host_port(portMap, internal_port) == portMap[internal_port]

\* LogStreamAsync::wait_for_message on a stream holding `lines`, `closed` when
\* the container no longer writes: Ok once a line contains the message,
\* Err(EndOfStream) when the stream ends first, otherwise still waiting.
wait_for_message(lines, closed, message) ==
    IF \E k \in 1..Len(lines) : Contains(lines[k], message) THEN "Ok"
    ELSE IF closed THEN "Err"
    ELSE "Pending"

\* variant: every handle answers with the id of the first container
id_shared(h) == "c1"

\* ContainerAsync::id
id(h) == h

Call(op, cid) == [op |-> op, id |-> cid]

CallsOf(op, cid) == {k \in 1..Len(calls) : calls[k] = Call(op, cid)}

InitialPorts == [p \in InternalPorts |-> IF p = 27017 THEN 49153 ELSE NoPort]

----------------------------------------------------------------------------
(* Initial states: the client has created and started the container and
   calls ContainerAsync::new(id, client, image, command). *)

InitWith(active) ==
    /\ pc = [h \in Ids |-> IF h \in active THEN "constructing" ELSE "absent"]
    /\ command \in {f \in [Ids -> Policies] : \A h \in Ids \ active : f[h] = "Keep"}
    /\ conds \in {f \in [Ids -> SeqsUpTo(WaitFor, MaxConds)] :
                    \A h \in Ids \ active : f[h] = <<>>}
    /\ idx = [h \in Ids |-> 1]
    /\ awaiting = [h \in Ids |-> {}]
    /\ resolved = [h \in Ids |-> {}]
    /\ wakeAt = [h \in Ids |-> 0]
    /\ returned = [h \in Ids |-> FALSE]
    /\ errAt = [h \in Ids |-> 0]
    /\ failure = [h \in Ids |-> NoFailure]
    /\ result = [h \in Ids |-> NoResult]
    /\ ops = [h \in Ids |-> 0]
    /\ inflight = [h \in Ids |-> FALSE]
    /\ sched = [h \in Ids |-> "none"]
    /\ calls = <<>>
    /\ sandbox = [c \in Ids |-> IF c \in active THEN "running" ELSE "none"]
    /\ stdout = [c \in Ids |-> <<>>]
    /\ stderr = [c \in Ids |-> <<>>]
    /\ ports = [c \in Ids |-> InitialPorts]
    /\ now = 0

\* one handle, any image, a client whose calls can fail
Init ==
    /\ InitWith({"c1"})
    /\ limit = MaxOps
    /\ faulty = TRUE

----------------------------------------------------------------------------
(* Construction: ContainerAsync::new and block_until_ready *)

Constructing(h) == pc[h] = "constructing"

\* variant: every condition not yet begun may begin (conditions joined
\* instead of awaited in turn)
AwaitableAll(h) ==
    {i \in 1..Len(conds[h]) : i \notin awaiting[h] \cup resolved[h]}

\* the for loop: the condition whose wait may begin now. The loop body awaits
\* each condition to its end before the iterator yields the next one.
Awaitable(h) ==
    IF awaiting[h] = {} /\ idx[h] <= Len(conds[h]) THEN {idx[h]} ELSE {}

\* variant: every message condition reads stdout
StreamCallStdOut(h, c) == Call("stdout_logs", id(h))

\* the log stream a message condition reads: stdout_logs for StdOutMessage,
\* stderr_logs for StdErrMessage, of the handle's own container
StreamCall(h, c) ==
    IF c.kind = "StdOutMessage" THEN Call("stdout_logs", id(h))
    ELSE Call("stderr_logs", id(h))

StreamLines(call) ==
    IF call.op = "stdout_logs" THEN stdout[call.id] ELSE stderr[call.id]

\* the stream ends when the container no longer runs
StreamClosed(call) == sandbox[call.id] # "running"

\* variant: a Nothing condition is waited for on a log stream as well
IsLogOrNothing(c) == c.kind \in {"StdOutMessage", "StdErrMessage", "Nothing"}

IsLog(c) == c.kind \in {"StdOutMessage", "StdErrMessage"}

\* what .unwrap() panics with when wait_for_message returns Err: the Debug
\* rendering of the WaitError alone
unwrap_failure(h, i) ==
    [kind |-> "panic", msg |-> "called Result::unwrap() on an Err value: EndOfStream",
     id |-> "", cond |-> 0]

\* variant: the Err is discarded and the loop goes on
unwrap_ignored(r) == "value"

\* Result::unwrap on the outcome of wait_for_message
unwrap(r) == IF r = "Ok" THEN "value" ELSE "panic"

\* variant: the loop stops one condition short
LoopDoneOffByOne(h) == idx[h] >= Len(conds[h])

\* new() returns the container once block_until_ready has run its loop to the end
LoopDone(h) == idx[h] > Len(conds[h])

Resolve(h, i) ==
    /\ awaiting' = [awaiting EXCEPT ![h] = @ \ {i}]
    /\ resolved' = [resolved EXCEPT ![h] = @ \cup {i}]
    /\ idx' = [idx EXCEPT ![h] = @ + 1]

\* WaitFor::StdOutMessage / StdErrMessage: ask the client for the stream
OpenLog(h) ==
    /\ Constructing(h)
    /\ \E i \in Awaitable(h) :
        /\ IsLog(conds[h][i])
        /\ calls' = Append(calls, StreamCall(h, conds[h][i]))
        /\ awaiting' = [awaiting EXCEPT ![h] = @ \cup {i}]
    /\ UNCHANGED <<pc, command, conds, limit, faulty, idx, resolved, wakeAt, returned, errAt, failure,
                   result, ops, inflight, sched, runtimeVars, now>>

\* variant: a wait that has not found its message gives up with an error
WaitOutcomeTimeout(h, i) ==
    LET call == StreamCall(h, conds[h][i]) IN
    IF \E k \in 1..Len(StreamLines(call)) :
           Contains(StreamLines(call)[k], conds[h][i].message)
    THEN "Ok" ELSE "Err"

\* docker_client.stdout_logs(&self.id).await.wait_for_message(message).await
\* (or stderr_logs): how the wait of condition i stands on what the stream
\* holds now
WaitOutcome(h, i) ==
    LET call == StreamCall(h, conds[h][i]) IN
    wait_for_message(StreamLines(call), StreamClosed(call), conds[h][i].message)

\* wait_for_message(..).await returns Ok: the loop moves on
LogFound(h) ==
    /\ Constructing(h)
    /\ \E i \in awaiting[h] :
        /\ IsLog(conds[h][i])
        /\ WaitOutcome(h, i) = "Ok"
        /\ unwrap("Ok") = "value"
        /\ Resolve(h, i)
    /\ UNCHANGED <<pc, command, conds, limit, faulty, wakeAt, returned, errAt, failure, result, ops,
                   inflight, sched, calls, runtimeVars, now>>

\* wait_for_message(..).await returns Err: unwrap() panics, new() unwinds
LogEnded(h) ==
    /\ Constructing(h)
    /\ \E i \in awaiting[h] :
        /\ IsLog(conds[h][i])
        /\ WaitOutcome(h, i) = "Err"
        /\ errAt' = [errAt EXCEPT ![h] = i]
        /\ IF unwrap("Err") = "panic"
           THEN /\ failure' = [failure EXCEPT ![h] = unwrap_failure(h, i)]
                /\ pc' = [pc EXCEPT ![h] = "unwinding"]
                /\ awaiting' = [awaiting EXCEPT ![h] = {}]
                /\ UNCHANGED <<idx, resolved>>
           ELSE /\ Resolve(h, i)
                /\ UNCHANGED <<pc, failure>>
    /\ UNCHANGED <<command, conds, limit, faulty, wakeAt, returned, result, ops,
                   inflight, sched, calls, runtimeVars, now>>

\* WaitFor::Duration: tokio::time::sleep(length) starts
StartSleep(h) ==
    /\ Constructing(h)
    /\ \E i \in Awaitable(h) :
        /\ conds[h][i].kind = "Duration"
        /\ wakeAt' = [wakeAt EXCEPT ![h] = now + conds[h][i].length]
        /\ awaiting' = [awaiting EXCEPT ![h] = @ \cup {i}]
    /\ UNCHANGED <<pc, command, conds, limit, faulty, idx, resolved, returned, errAt, failure, result,
                   ops, inflight, sched, calls, runtimeVars, now>>

\* variant: the sleep returns without waiting
ElapsedAtOnce(h) == TRUE

\* tokio::time::sleep(length).await returns once length has passed
Elapsed(h) == now >= wakeAt[h]

\* the sleep is over
Wake(h) ==
    /\ Constructing(h)
    /\ \E i \in awaiting[h] :
        /\ conds[h][i].kind = "Duration"
        /\ Elapsed(h)
        /\ Resolve(h, i)
    /\ UNCHANGED <<pc, command, conds, limit, faulty, wakeAt, returned, errAt, failure, result, ops,
                   inflight, sched, calls, runtimeVars, now>>

\* WaitFor::Nothing => {}
PassNothing(h) ==
    /\ Constructing(h)
    /\ \E i \in Awaitable(h) :
        /\ conds[h][i].kind = "Nothing"
        /\ resolved' = [resolved EXCEPT ![h] = @ \cup {i}]
        /\ idx' = [idx EXCEPT ![h] = @ + 1]
    /\ UNCHANGED <<pc, command, conds, limit, faulty, awaiting, wakeAt, returned, errAt, failure, result,
                   ops, inflight, sched, calls, runtimeVars, now>>

\* new() returns `container`
Return(h) ==
    /\ Constructing(h)
    /\ awaiting[h] = {}
    /\ LoopDone(h)
    /\ pc' = [pc EXCEPT ![h] = "ready"]
    /\ returned' = [returned EXCEPT ![h] = TRUE]
    /\ UNCHANGED <<command, conds, limit, faulty, idx, awaiting, resolved, wakeAt, errAt, failure,
                   result, ops, inflight, sched, calls, runtimeVars, now>>

----------------------------------------------------------------------------
(* The container and the clock *)

Observed(c) == \E h \in Ids : id(h) = c /\ Constructing(h)

\* block_until_ready still has a log stream of container c to read
Read(c) ==
    \E h \in Ids :
        /\ id(h) = c /\ Constructing(h)
        /\ \E i \in idx[h]..Len(conds[h]) : IsLog(conds[h][i])

\* a sleep is in progress and not yet due
Sleeping ==
    \E h \in Ids : \E i \in awaiting[h] :
        conds[h][i].kind = "Duration" /\ now < wakeAt[h]

\* the container writes a line to one of its streams; the lines are modelled
\* as long as block_until_ready has a stream of the container to read
EmitOut(c) ==
    /\ sandbox[c] = "running" /\ Read(c)
    /\ Len(stdout[c]) < Len(Transcript)
    /\ stdout' = [stdout EXCEPT ![c] = Append(@, Transcript[Len(@) + 1])]
    /\ UNCHANGED <<handleVars, command, conds, limit, faulty, calls, sandbox, stderr, ports, now>>

EmitErr(c) ==
    /\ sandbox[c] = "running" /\ Read(c)
    /\ Len(stderr[c]) < Len(Transcript)
    /\ stderr' = [stderr EXCEPT ![c] = Append(@, Transcript[Len(@) + 1])]
    /\ UNCHANGED <<handleVars, command, conds, limit, faulty, calls, sandbox, stdout, ports, now>>

\* the container's process exits on its own, ending both streams; modelled
\* while a construction on the container is in progress
SandboxExit(c) ==
    /\ sandbox[c] = "running" /\ Observed(c)
    /\ sandbox' = [sandbox EXCEPT ![c] = "exited"]
    /\ UNCHANGED <<handleVars, command, conds, limit, faulty, calls, stdout, stderr, ports, now>>

\* time passes; the clock is read by sleep only, so it is modelled while a
\* sleep is in progress, up to the instant the sleep is due
Tick ==
    /\ now < MaxTime
    /\ Sleeping
    /\ now' = now + 1
    /\ UNCHANGED <<handleVars, command, conds, limit, faulty, calls, runtimeVars>>


----------------------------------------------------------------------------
(* The docker client, as ContainerAsync sees it through the DockerAsync
   trait: a call either takes effect in the runtime or fails, and a failed
   call panics in the client since no method of the trait returns a Result. *)

\* whether a call takes effect
Outcomes == IF faulty THEN BOOLEAN ELSE {TRUE}

ClientFailure == [kind |-> "panic", msg |-> "docker client call failed",
                  id |-> "", cond |-> 0]

AfterStop(s) == IF s = "running" THEN "exited" ELSE s
AfterStart(s) == IF s = "exited" THEN "running" ELSE s
AfterRm(s) == "removed"

\* port mappings the runtime may assign when the container (re)starts
Assignable == {m \in [InternalPorts -> HostPorts \cup {NoPort}] :
                 m[27017] \in HostPorts /\ m[9999] = NoPort}

----------------------------------------------------------------------------
(* Operations on a handle the caller holds *)

Held(h) == pc[h] = "ready"

\* variant: a port map remembered from the start instead of a query
PortsStale(h) == InitialPorts

\* self.docker_client.ports(&self.id).await: what the runtime maps right now
PortsAnswer(h) == ports[id(h)]

\* variant: unwrap_or_default() in place of the panic
get_host_port_or_default(h, portMap, internal_port) ==
    [kind |-> "value", value |-> map_to_host_port(portMap, internal_port),
     failure |-> NoFailure]

\* .map_to_host_port(&internal_port).unwrap_or_else(|| panic!(..))
get_host_port(h, portMap, internal_port) ==
    LET host == map_to_host_port(portMap, internal_port) IN
    IF host = NoPort
    THEN [kind |-> "panic", value |-> NoPort,
          failure |-> [kind |-> "panic", msg |-> "container does not expose port",
                       id |-> id(h), cond |-> 0]]
    ELSE [kind |-> "value", value |-> host, failure |-> NoFailure]

GetHostPort(h, p) ==
    /\ Held(h) /\ ops[h] < limit
    /\ ops' = [ops EXCEPT ![h] = @ + 1]
    /\ calls' = Append(calls, Call("ports", id(h)))
    /\ \E ok \in Outcomes :
        IF ok
        THEN LET out == get_host_port(h, PortsAnswer(h), p) IN
             /\ result' = [result EXCEPT ![h] =
                    [seq |-> ops[h] + 1, port |-> p,
                     outcome |-> IF out.kind = "value" THEN "value" ELSE "unmapped",
                     value |-> out.value]]
             /\ failure' = [failure EXCEPT ![h] = out.failure]
             /\ pc' = [pc EXCEPT ![h] = IF out.kind = "value" THEN @ ELSE "unwinding"]
        ELSE /\ result' = [result EXCEPT ![h] =
                    [seq |-> ops[h] + 1, port |-> p, outcome |-> "unreachable",
                     value |-> NoPort]]
             /\ failure' = [failure EXCEPT ![h] = ClientFailure]
             /\ pc' = [pc EXCEPT ![h] = "unwinding"]
    /\ UNCHANGED <<command, conds, limit, faulty, idx, awaiting, resolved, wakeAt, returned, errAt,
                   inflight, sched, runtimeVars, now>>

\* the client calls start() makes
start(h) == <<Call("start", id(h))>>

\* variant: stop also removes the container
stop_and_rm(h) == <<Call("stop", id(h)), Call("rm", id(h))>>

\* the client calls stop() makes
stop(h) == <<Call("stop", id(h))>>

\* variant: rm() follows the cleanup policy as drop_async does
rm_by_policy(h) ==
    IF command[h] = "Remove" THEN <<Call("rm", id(h))>> ELSE <<>>

\* the client calls rm() makes
rm(h) == <<Call("rm", id(h))>>

\* self.docker_client.start(&self.id).await
Start(h) ==
    /\ Held(h) /\ ops[h] < limit
    /\ ops' = [ops EXCEPT ![h] = @ + 1]
    /\ calls' = calls \o start(h)
    /\ \E ok \in Outcomes :
        IF ok
        THEN /\ sandbox' = [sandbox EXCEPT ![id(h)] = AfterStart(@)]
             /\ \E m \in Assignable :
                    ports' = [ports EXCEPT ![id(h)] =
                                 IF sandbox[id(h)] = "exited" THEN m ELSE @]
             /\ UNCHANGED <<pc, failure>>
        ELSE /\ failure' = [failure EXCEPT ![h] = ClientFailure]
             /\ pc' = [pc EXCEPT ![h] = "unwinding"]
             /\ UNCHANGED <<sandbox, ports>>
    /\ UNCHANGED <<command, conds, limit, faulty, idx, awaiting, resolved, wakeAt, returned, errAt,
                   result, inflight, sched, stdout, stderr, now>>

\* self.docker_client.stop(&self.id).await
Stop(h) ==
    /\ Held(h) /\ ops[h] < limit
    /\ ops' = [ops EXCEPT ![h] = @ + 1]
    /\ calls' = calls \o stop(h)
    /\ \E ok \in Outcomes :
        IF ok
        THEN /\ sandbox' = [sandbox EXCEPT ![id(h)] = AfterStop(@)]
             /\ UNCHANGED <<pc, failure>>
        ELSE /\ failure' = [failure EXCEPT ![h] = ClientFailure]
             /\ pc' = [pc EXCEPT ![h] = "unwinding"]
             /\ UNCHANGED sandbox
    /\ UNCHANGED <<command, conds, limit, faulty, idx, awaiting, resolved, wakeAt, returned, errAt,
                   result, inflight, sched, stdout, stderr, ports, now>>

\* rm(self): the call, then `self` goes out of scope whether the call
\* returned or panicked
Rm(h) ==
    /\ Held(h)
    /\ calls' = calls \o rm(h)
    /\ \E ok \in Outcomes :
        IF ok
        THEN /\ sandbox' = [sandbox EXCEPT ![id(h)] = AfterRm(@)]
             /\ UNCHANGED failure
        ELSE /\ failure' = [failure EXCEPT ![h] = ClientFailure]
             /\ UNCHANGED sandbox
    /\ pc' = [pc EXCEPT ![h] = "consumed"]
    /\ UNCHANGED <<command, conds, limit, faulty, idx, awaiting, resolved, wakeAt, returned, errAt,
                   result, ops, inflight, sched, stdout, stderr, ports, now>>

----------------------------------------------------------------------------
(* The destructor: Drop::drop = block_on(self.drop_async()) *)

\* variant: Remove stops the container instead of removing it
drop_async_stop(h) ==
    IF command[h] = "Remove" THEN <<Call("stop", id(h))>> ELSE <<>>

\* variant: the match on env::Command is lost and rm is always called
drop_async_always(h) == <<Call("rm", id(h))>>

\* variant: drop_async makes no call at all
drop_async_never(h) == <<>>

\* drop_async: the client calls it makes, by env::Command
drop_async(h) ==
    IF command[h] = "Remove" THEN <<Call("rm", id(h))>> ELSE <<>>

\* variant: the future is spawned and drop returns at once
spawn_detached(h) == "dropped"

\* block_on: the dropping thread stays in drop until the future is done
block_on(h) == "drop_wait"

\* the value goes out of scope: the caller lets go of a handle it holds, a
\* panic unwinds the frame that owns it, or rm(self) has run
Owned(h) == pc[h] \in {"ready", "unwinding", "consumed"}

DropEnter(h) ==
    /\ Owned(h)
    /\ calls' = calls \o drop_async(h)
    /\ IF drop_async(h) = <<>>
       THEN /\ pc' = [pc EXCEPT ![h] = "dropped"]
            /\ UNCHANGED <<inflight, sched>>
       ELSE /\ pc' = [pc EXCEPT ![h] = block_on(h)]
            /\ inflight' = [inflight EXCEPT ![h] = TRUE]
            /\ \E s \in Schedulers : sched' = [sched EXCEPT ![h] = s]
    /\ UNCHANGED <<command, conds, limit, faulty, idx, awaiting, resolved, wakeAt, returned, errAt,
                   failure, result, ops, runtimeVars, now>>

\* the runtime answers the rm of drop_async and drop returns, or panics; a
\* panic while another one unwinds aborts, and the first payload stands
RmAnswer(h) ==
    /\ inflight[h] /\ pc[h] \in {"drop_wait", "dropped"}
    /\ inflight' = [inflight EXCEPT ![h] = FALSE]
    /\ pc' = [pc EXCEPT ![h] = "dropped"]
    /\ \E ok \in Outcomes :
        IF ok
        THEN /\ sandbox' = [sandbox EXCEPT ![id(h)] = AfterRm(@)]
             /\ UNCHANGED failure
        ELSE /\ failure' = [failure EXCEPT ![h] =
                             IF @ = NoFailure THEN ClientFailure ELSE @]
             /\ UNCHANGED sandbox
    /\ UNCHANGED <<command, conds, limit, faulty, idx, awaiting, resolved, wakeAt, returned, errAt,
                   result, ops, sched, calls, stdout, stderr, ports, now>>

\* variant: the rm future can be starved on any scheduler
StarvedAny(h) == TRUE

\* the runtime flavour the doc comment warns of: with one worker thread
\* nothing is left to drive the rm future while block_on holds that thread
Starved(h) == sched[h] = "single"

\* on a single-worker scheduler block_on holds the only worker, and an rm
\* future that needs that worker never completes: the thread stalls in drop
DropStall(h) ==
    /\ pc[h] = "drop_wait" /\ Starved(h)
    /\ pc' = [pc EXCEPT ![h] = "stalled"]
    /\ UNCHANGED <<command, conds, limit, faulty, idx, awaiting, resolved, wakeAt, returned, errAt,
                   failure, result, ops, inflight, sched, calls, runtimeVars, now>>

----------------------------------------------------------------------------

Next ==
    \/ \E h \in Ids : OpenLog(h)
    \/ \E h \in Ids : LogFound(h)
    \/ \E h \in Ids : LogEnded(h)
    \/ \E h \in Ids : StartSleep(h)
    \/ \E h \in Ids : Wake(h)
    \/ \E h \in Ids : PassNothing(h)
    \/ \E h \in Ids : Return(h)
    \/ \E c \in Ids : EmitOut(c)
    \/ \E c \in Ids : EmitErr(c)
    \/ \E c \in Ids : SandboxExit(c)
    \/ Tick
    \/ \E h \in Ids, p \in InternalPorts : GetHostPort(h, p)
    \/ \E h \in Ids : Start(h)
    \/ \E h \in Ids : Stop(h)
    \/ \E h \in Ids : Rm(h)
    \/ \E h \in Ids : DropEnter(h)
    \/ \E h \in Ids : RmAnswer(h)
    \/ \E h \in Ids : DropStall(h)

Spec == Init /\ [][Next]_vars

\* the client answers every rm that drop waits for, unless the wait has
\* starved it
FairSpec == Spec /\ \A h \in Ids : WF_vars(RmAnswer(h))

\* the images of src/ and their cleanup policy: Mongo waits for a message on
\* stdout, ParityEthereum for one on stderr; and an image that sleeps and
\* then waits for nothing
Images == {<<"Remove", <<WaitStdOut>> >>,
           <<"Keep", <<WaitStdErr>> >>,
           <<"Remove", <<WaitDuration, WaitNothing>> >>}

\* two handles built, used and dropped side by side on one client whose
\* calls take effect, each with one of the images and at most one auxiliary call
InitMulti ==
    /\ InitWith(Ids)
    /\ \A h \in Ids : <<command[h], conds[h]>> \in Images
    /\ limit = 1
    /\ faulty = FALSE

SpecMulti == InitMulti /\ [][Next]_vars

----------------------------------------------------------------------------
(* Properties *)

RECURSIVE DelaySum(_, _)
\* the lengths of the Duration conditions among the first i of cs, added up
DelaySum(cs, i) ==
    IF i = 0 THEN 0
    ELSE DelaySum(cs, i - 1) + (IF cs[i].kind = "Duration" THEN cs[i].length ELSE 0)

\* condition i of h holds of the container and the clock as they are now
Satisfied(h, i) ==
    LET c == conds[h][i] IN
    /\ i \in resolved[h]
    /\ IsLog(c) =>
         \E k \in 1..Len(StreamLines(StreamCall(h, c))) :
             Contains(StreamLines(StreamCall(h, c))[k], c.message)
    /\ c.kind = "Duration" => now >= DelaySum(conds[h], i)

InDrop == {"drop_wait", "stalled", "dropped"}

\* drop is entered on h in this step
DropStep(h) == Owned(h) /\ pc'[h] \in InDrop

\* C1: whenever new() has handed the handle to its caller, every condition of
\* ready_conditions() has resolved: each message has been written to its
\* stream and each delay has elapsed, and no wait is still in progress.
NoHandleBeforeReady ==
    \A h \in Ids :
        returned[h] =>
            /\ awaiting[h] = {}
            /\ \A i \in 1..Len(conds[h]) : Satisfied(h, i)

\* a handle returned after a log wait and a sleep
ReadyAfterAllConditions ==
    \E h \in Ids :
        /\ returned[h] /\ Len(conds[h]) = 2
        /\ IsLog(conds[h][1]) /\ conds[h][2].kind = "Duration"

\* C2: over any sequence of operations the client sees at most one rm call
\* per container id.
AtMostOneTeardown ==
    \A c \in Ids : Cardinality(CallsOf("rm", c)) <= 1

\* C3 as stated: once a Remove handle is being disposed of, the client has
\* seen a stop call and after it an rm call, both with the handle's id.
DisposalStopsThenRemoves ==
    \A h \in Ids :
        (command[h] = "Remove" /\ pc[h] \in InDrop) =>
            \E k, l \in 1..Len(calls) :
                /\ k < l
                /\ calls[k] = Call("stop", id(h))
                /\ calls[l] = Call("rm", id(h))

\* C3 amended: the step that disposes of a Remove handle makes exactly one
\* client call, rm with the handle's own id, and no stop call.
RemoveDisposalIssuesOneRm ==
    [][\A h \in Ids :
          (DropStep(h) /\ command[h] = "Remove") =>
              calls' = Append(calls, Call("rm", id(h)))]_vars

\* a Remove handle that was held, then dropped, its container removed by the
\* one rm call
RemoveHandleDisposed ==
    \E h \in Ids :
        /\ command[h] = "Remove" /\ returned[h] /\ pc[h] = "dropped"
        /\ sandbox[id(h)] = "removed"
        /\ Cardinality(CallsOf("rm", id(h))) = 1
        /\ CallsOf("stop", id(h)) = {}

\* C4: the step that disposes of a Keep handle makes no client call, leaves
\* no call pending and leaves the container as it is; drop returns at once.
KeepDisposalIssuesNothing ==
    [][\A h \in Ids :
          (DropStep(h) /\ command[h] = "Keep") =>
              /\ calls' = calls
              /\ sandbox' = sandbox
              /\ ~inflight'[h]
              /\ pc'[h] = "dropped"]_vars

\* a Keep handle that was held, then dropped, its container still running
\* and never stopped or removed
KeepHandleDisposed ==
    \E h \in Ids :
        /\ command[h] = "Keep" /\ returned[h] /\ pc[h] = "dropped"
        /\ sandbox[id(h)] = "running"
        /\ CallsOf("rm", id(h)) = {} /\ CallsOf("stop", id(h)) = {}

\* C5: at most one condition is being awaited at a time, and a condition is
\* begun (its stream opened, its sleep started) only when every condition
\* before it has resolved.
ConditionsInTurn ==
    \A h \in Ids :
        /\ Cardinality(awaiting[h]) <= 1
        /\ \A i \in awaiting[h] \cup resolved[h] :
               \A j \in 1..(i - 1) : j \in resolved[h]

\* the second of two log conditions is awaited, the first one resolved
SecondWaitAfterFirst ==
    \E h \in Ids :
        /\ Len(conds[h]) = 2 /\ IsLog(conds[h][1]) /\ IsLog(conds[h][2])
        /\ awaiting[h] = {2} /\ 1 \in resolved[h]

\* log conditions among the first i conditions of h
LogsUpTo(h, i) == {j \in 1..i : IsLog(conds[h][j])}

StreamCallsOf(c) ==
    {k \in 1..Len(calls) : calls[k].id = c /\ calls[k].op \in {"stdout_logs", "stderr_logs"}}

\* no handle, no later condition: what holds of h once a wait returned Err
AbortedAt(h) ==
    /\ ~returned[h] /\ pc[h] \notin {"constructing", "ready"}
    /\ \A j \in errAt[h]..Len(conds[h]) : j \notin resolved[h] \cup awaiting[h]
    /\ Cardinality(StreamCallsOf(id(h))) = Cardinality(LogsUpTo(h, errAt[h]))

\* C6 as stated: when a log stream ends before its message, construction
\* fails with a failure that names the container and the unmet condition, no
\* handle is returned and no later condition is evaluated.
ReadinessFailureNamesSandbox ==
    \A h \in Ids :
        errAt[h] # 0 =>
            /\ AbortedAt(h)
            /\ failure[h].kind = "panic"
            /\ failure[h].id = id(h)
            /\ failure[h].cond = errAt[h]

\* C6 amended: when a log stream ends before its message, construction fails
\* with the panic of unwrap(), whose payload is the wait error alone and names
\* neither the container nor the condition; no handle is returned and no
\* later condition is evaluated.
ReadinessFailureIsUnwrapPanic ==
    \A h \in Ids :
        errAt[h] # 0 =>
            /\ AbortedAt(h)
            /\ failure[h] = unwrap_failure(h, errAt[h])
            /\ failure[h].id # id(h)
            /\ failure[h].cond # errAt[h]

\* the container exits after a line that holds only part of the message: the
\* first of two conditions fails and the handle is dropped unreturned
StreamEndedBeforeMessage ==
    \E h \in Ids :
        /\ Len(conds[h]) = 2 /\ errAt[h] = 1
        /\ conds[h][1].kind = "StdOutMessage"
        /\ stdout[id(h)] = <<Transcript[1]>>
        /\ pc[h] = "dropped"

\* C7: drop has not returned while the rm call it issued is pending.
DropWaitsForRemove ==
    \A h \in Ids : pc[h] = "dropped" => ~inflight[h]

\* drop has returned on a multi-worker scheduler after its rm call was answered
DropReturnedAfterRemove ==
    \E h \in Ids :
        /\ pc[h] = "dropped" /\ command[h] = "Remove" /\ sched[h] = "multi"
        /\ ~inflight[h]
        /\ CallsOf("rm", id(h)) # {}
        /\ sandbox[id(h)] = "removed"

\* C8: every get_host_port makes one ports call with the handle's id, and the
\* port it returns is the one the runtime maps at that moment.
HostPortIsFreshQuery ==
    [][\A h \in Ids :
          result'[h] # result[h] =>
              /\ calls' = Append(calls, Call("ports", id(h)))
              /\ result'[h].outcome = "value" =>
                     result'[h].value = ports[id(h)][result'[h].port]]_vars

\* a port read after the runtime assigned a mapping other than the first one
RemappedPortSeen ==
    \E h \in Ids :
        /\ result[h].outcome = "value" /\ result[h].port = 27017
        /\ result[h].value = 49154
        /\ ports[id(h)] # InitialPorts

\* C9: get_host_port never returns for a port the runtime does not map: it
\* panics, with a payload other than that of a failed ports call; a value it
\* returns is a mapped host port.
UnmappedPortFailsDistinctly ==
    \A h \in Ids :
        /\ result[h].outcome = "value" => result[h].value \in HostPorts
        /\ (/\ result[h].outcome \in {"value", "unmapped"}
            /\ map_to_host_port(ports[id(h)], result[h].port) = NoPort) =>
               /\ result[h].outcome = "unmapped"
               /\ pc[h] # "ready"
               /\ failure[h].kind = "panic"
               /\ failure[h] # ClientFailure
        /\ result[h].outcome = "unreachable" => failure[h] = ClientFailure

\* port 9999 was asked for and the caller is unwinding
UnmappedPortPanicked ==
    \E h \in Ids :
        /\ result[h].outcome = "unmapped" /\ result[h].port = 9999
        /\ pc[h] = "unwinding"
        /\ failure[h].msg = "container does not expose port"

\* C10: once the life of a Remove handle has ended, the client has seen
\* exactly one rm call with its id.
TeardownExactlyOnce ==
    \A h \in Ids :
        (command[h] = "Remove" /\ pc[h] = "dropped") =>
            Cardinality(CallsOf("rm", id(h))) = 1

\* C11 as stated: once the handle of an aborted construction has been
\* dropped, an rm call with its id has been made, whatever the policy.
AbortedSandboxTornDown ==
    \A h \in Ids :
        (errAt[h] # 0 /\ pc[h] \in InDrop) => CallsOf("rm", id(h)) # {}

\* C11 amended: once the handle of an aborted construction is in drop, a
\* Remove handle has made exactly one rm call with its id; a Keep handle has
\* made none, and its container is left in the runtime, not removed.
AbortedSandboxTornDownIfRemove ==
    \A h \in Ids :
        (errAt[h] # 0 /\ pc[h] \in InDrop) =>
            /\ ~returned[h]
            /\ command[h] = "Remove" => Cardinality(CallsOf("rm", id(h))) = 1
            /\ command[h] = "Keep" =>
                   /\ CallsOf("rm", id(h)) = {}
                   /\ sandbox[id(h)] = "exited"

\* a Remove handle whose construction aborted: dropped, container removed
AbortedRemoveHandleDropped ==
    \E h \in Ids :
        /\ errAt[h] # 0 /\ command[h] = "Remove" /\ pc[h] = "dropped"
        /\ sandbox[id(h)] = "removed"

\* the handle's own fields and its readiness state stay as they are
HandleFrame ==
    UNCHANGED <<command, conds, limit, faulty, idx, awaiting, resolved, wakeAt, returned, errAt>>

\* C12: a start() step makes exactly one client call, start with the handle's
\* id, and a stop() step exactly one, stop with the handle's id; neither
\* touches the handle's id, policy or readiness state, and neither removes
\* the container.
StartStopOnlyDelegate ==
    [][\A h \in Ids :
          /\ Start(h) =>
                 /\ calls' = Append(calls, Call("start", h))
                 /\ HandleFrame
                 /\ sandbox'[h] = "removed" => sandbox[h] = "removed"
          /\ Stop(h) =>
                 /\ calls' = Append(calls, Call("stop", h))
                 /\ HandleFrame
                 /\ sandbox'[h] = "removed" => sandbox[h] = "removed"]_vars

\* a held handle after stop() and start(): two calls, the container running
\* again, the readiness conditions resolved once
StoppedAndStarted ==
    \E h \in Ids :
        /\ pc[h] = "ready" /\ ops[h] = 2
        /\ calls = <<Call("stdout_logs", h), Call("stop", h), Call("start", h)>>
        /\ sandbox[h] = "running"

\* what handle h holds and where its calls stand
HandleState(h) ==
    <<pc[h], idx[h], awaiting[h], resolved[h], wakeAt[h], returned[h], errAt[h],
      failure[h], result[h], ops[h], inflight[h], sched[h]>>

\* what the runtime holds of container c
ContainerState(c) == <<sandbox[c], ports[c], stdout[c], stderr[c]>>

\* the step adds nothing to the calls, or one call and that one with id c
CallsOnly(c) ==
    \/ calls' = calls
    \/ /\ Len(calls') = Len(calls) + 1
       /\ SubSeq(calls', 1, Len(calls)) = calls
       /\ calls'[Len(calls')].id = c

\* the outcome of h's construction is read off h's own container: a returned
\* handle had its conditions resolved, an aborted one saw its own container stop
OwnOutcome(h) ==
    /\ returned[h] => resolved[h] = 1..Len(conds[h])
    /\ errAt[h] # 0 =>
           /\ sandbox[h] # "running"
           /\ LET c == conds[h][errAt[h]] IN
              IF c.kind = "StdOutMessage"
              THEN wait_for_message(stdout[h], TRUE, c.message) = "Err"
              ELSE c.kind = "StdErrMessage"
                   /\ wait_for_message(stderr[h], TRUE, c.message) = "Err"

\* C13: with two handles constructed, used and dropped side by side on one
\* client, a step of one handle leaves the other handle and the other
\* container as they were, and the call it makes, if any, carries the
\* handle's own id; whether a construction returns or aborts is decided by
\* the handle's own container alone.
HandlesIsolated ==
    /\ [](\A h \in Ids : OwnOutcome(h))
    /\ [][\A h \in Ids :
             HandleState(h)' # HandleState(h) =>
                 /\ CallsOnly(h)
                 /\ \A g \in Ids \ {h} :
                        /\ HandleState(g)' = HandleState(g)
                        /\ ContainerState(g)' = ContainerState(g)]_vars

\* both constructions have returned their handle, their waits interleaved:
\* the second handle's stream was opened before the first one's wait ended
BothConstructed ==
    /\ \A h \in Ids : returned[h] /\ pc[h] = "ready" /\ errAt[h] = 0
    /\ Len(calls) = 2
    /\ calls[1].id # calls[2].id
    /\ conds["c1"] = <<WaitStdOut>> /\ conds["c2"] = <<WaitStdErr>>

\* ready_conditions() is empty or holds WaitFor::Nothing only
NothingOnly(h) == \A i \in 1..Len(conds[h]) : conds[h][i].kind = "Nothing"

\* every call made so far with id c
CallsWith(c) == {k \in 1..Len(calls) : calls[k].id = c}

\* C14: a construction whose conditions are none or WaitFor::Nothing only
\* never waits on a stream or a timer and never fails: while it runs it can
\* always take its next step, no time passes, and until the caller uses the
\* returned handle no call has been made with its id.
NothingOnlyReturnsAtOnce ==
    \A h \in Ids :
        (pc[h] # "absent" /\ NothingOnly(h)) =>
            /\ awaiting[h] = {} /\ wakeAt[h] = 0 /\ errAt[h] = 0
            /\ Constructing(h) =>
                   /\ now = 0 /\ CallsWith(id(h)) = {}
                   /\ ENABLED (PassNothing(h) \/ Return(h))
            /\ ~Constructing(h) => returned[h]
            /\ (pc[h] = "ready" /\ ops[h] = 0) => CallsWith(id(h)) = {}

\* a handle returned for two Nothing conditions, both passed, nothing called
NothingOnlyReturned ==
    \E h \in Ids :
        /\ conds[h] = <<WaitNothing, WaitNothing>>
        /\ pc[h] = "ready" /\ returned[h] /\ resolved[h] = {1, 2}
        /\ calls = <<>> /\ now = 0

\* a sleep of h is in progress
SleepingOn(h) == {i \in awaiting[h] : conds[h][i].kind = "Duration"}

\* C15: a sleep of length d ends no earlier than d after it began, so a
\* returned handle has waited at least the sum of its Duration conditions;
\* and once the length has passed the sleep can end, whatever the container
\* has written and whether or not it still runs.
DelayAlwaysObserved ==
    \A h \in Ids :
        /\ SleepingOn(h) = {} => now >= wakeAt[h]
        /\ \A i \in SleepingOn(h) :
               /\ wakeAt[h] >= DelaySum(conds[h], i)
               /\ now >= wakeAt[h] => ENABLED Wake(h)
        /\ returned[h] => now >= DelaySum(conds[h], Len(conds[h]))

\* a handle returned after two sleeps, the container silent and stopped meanwhile
TwoDelaysReturned ==
    \E h \in Ids :
        /\ conds[h] = <<WaitDuration, WaitDuration>>
        /\ returned[h] /\ now = 2 /\ wakeAt[h] = 2
        /\ sandbox[id(h)] = "exited" /\ stdout[id(h)] = <<>> /\ stderr[id(h)] = <<>>

\* the calls get_host_port, start and stop have made with id c
AuxCallsOf(c) ==
    {k \in 1..Len(calls) : calls[k].id = c /\ calls[k].op \in {"ports", "start", "stop"}}

\* a failed client call has ended the operation: it unwinds into the caller
FailurePropagated(h) ==
    failure[h] = ClientFailure => pc[h] \notin {"constructing", "ready"}

\* C16: a failed client call ends the operation that made it, and no
\* operation makes its call a second time: one call per get_host_port, start
\* and stop invoked, at most one stream per message condition, and at most
\* one rm for a handle on which rm() was invoked, whether the call failed or not.
NoCallReissued ==
    \A h \in Ids :
        /\ FailurePropagated(h)
        /\ Cardinality(AuxCallsOf(id(h))) = ops[h]
        /\ Cardinality(StreamCallsOf(id(h))) <= Cardinality(LogsUpTo(h, Len(conds[h])))
        /\ Cardinality(CallsOf("rm", id(h))) <= 1

\* the message waits of h that have neither found their message nor seen
\* their stream end
PendingOn(h) ==
    {i \in awaiting[h] :
        /\ IsLog(conds[h][i])
        /\ sandbox[h] = "running"
        /\ LET lines == IF conds[h][i].kind = "StdOutMessage"
                        THEN stdout[h] ELSE stderr[h] IN
           \A k \in 1..Len(lines) : ~Contains(lines[k], conds[h][i].message)}

\* where the construction of h stands
Construction(h) ==
    <<pc[h], idx[h], awaiting[h], resolved[h], returned[h], errAt[h], failure[h]>>

\* C17: while a message wait is pending, no step, of the handle, of the
\* clock or of anything else, moves the construction on: it neither returns
\* nor fails until the stream shows the message or ends; and a handle is
\* returned only with every awaited message on its stream.
PendingWaitNeverGivesUp ==
    [][\A h \in Ids :
          /\ PendingOn(h) # {} => Construction(h)' = Construction(h)
          /\ returned'[h] =>
                 \A i \in 1..Len(conds[h]) :
                     /\ conds[h][i].kind = "StdOutMessage" =>
                            \E k \in 1..Len(stdout'[h]) :
                                Contains(stdout'[h][k], conds[h][i].message)
                     /\ conds[h][i].kind = "StdErrMessage" =>
                            \E k \in 1..Len(stderr'[h]) :
                                Contains(stderr'[h][k], conds[h][i].message)]_vars

\* a sleep has passed and the message wait after it is pending: the
\* container runs and has written a line without the message
WaitStillPending ==
    \E h \in Ids :
        /\ conds[h] = <<WaitDuration, WaitStdOut>>
        /\ PendingOn(h) = {2} /\ now = 1
        /\ stdout[id(h)] = <<Transcript[1]>>
        /\ sandbox[id(h)] = "running"

\* some line of the stream holds the message
Written(lines, message) == \E k \in 1..Len(lines) : Contains(lines[k], message)

\* the conditions of h of the given kind that were waited for so far
WaitedFor(h, kind) ==
    {i \in resolved[h] \cup awaiting[h] : conds[h][i].kind = kind}

\* C18: a StdOutMessage condition resolves only with its message on the
\* stdout of the handle's own container and a StdErrMessage condition only
\* with it on that container's stderr, whatever the other stream holds; the
\* client is asked for stdout_logs once per StdOutMessage condition waited
\* for and for stderr_logs once per StdErrMessage condition, with the
\* handle's id.
OnlyNamedStreamResolves ==
    \A h \in Ids :
        /\ \A i \in resolved[h] :
               /\ conds[h][i].kind = "StdOutMessage" =>
                      Written(stdout[h], conds[h][i].message)
               /\ conds[h][i].kind = "StdErrMessage" =>
                      Written(stderr[h], conds[h][i].message)
        /\ Cardinality(CallsOf("stdout_logs", h)) =
               Cardinality(WaitedFor(h, "StdOutMessage"))
                   + (IF errAt[h] # 0 /\ conds[h][errAt[h]].kind = "StdOutMessage"
                      THEN 1 ELSE 0)
        /\ Cardinality(CallsOf("stderr_logs", h)) =
               Cardinality(WaitedFor(h, "StdErrMessage"))
                   + (IF errAt[h] # 0 /\ conds[h][errAt[h]].kind = "StdErrMessage"
                      THEN 1 ELSE 0)

\* a StdErrMessage wait still in progress although stdout holds the message
OtherStreamHasMessage ==
    \E h \in Ids :
        /\ conds[h] = <<WaitStdErr>> /\ awaiting[h] = {1} /\ resolved[h] = {}
        /\ Constructing(h)
        /\ Written(stdout[h], WaitStdErr.message)
        /\ ~Written(stderr[h], WaitStdErr.message)

\* C19: drop of a Remove handle waits for the rm call of drop_async; on a
\* multi-thread scheduler, with a client that answers, drop returns; a drop
\* stalls only on a single-worker scheduler with its rm call unanswered, and
\* a stalled drop never returns.
DropReturnsUnlessStarved ==
    /\ \A h \in Ids : (pc[h] = "drop_wait" /\ sched[h] = "multi") ~> pc[h] = "dropped"
    /\ [](\A h \in Ids :
             /\ pc[h] = "drop_wait" => command[h] = "Remove" /\ inflight[h]
             /\ pc[h] = "stalled" =>
                    /\ sched[h] = "single" /\ command[h] = "Remove" /\ inflight[h]
                    /\ ~ENABLED RmAnswer(h))
    /\ [][\A h \in Ids : pc[h] = "stalled" => pc'[h] = "stalled"]_vars

\* drop is stuck on a single-worker scheduler: the rm call was issued and
\* is never answered, the container is still there
DropStalled ==
    \E h \in Ids :
        /\ pc[h] = "stalled" /\ sched[h] = "single"
        /\ CallsOf("rm", id(h)) # {} /\ inflight[h]
        /\ sandbox[id(h)] = "running"

\* C20: rm() puts one rm call with the handle's id on the client whatever
\* env::Command says; on a Keep handle the drop that ends rm() adds no call,
\* so the client sees exactly one rm for the id, the one rm() made.
RmIgnoresPolicy ==
    /\ [][\A h \in Ids :
             /\ (pc[h] = "ready" /\ pc'[h] = "consumed") =>
                    calls' = Append(calls, Call("rm", h))
             /\ (pc[h] = "consumed" /\ command[h] = "Keep" /\ pc'[h] # pc[h]) =>
                    calls' = calls /\ pc'[h] = "dropped"]_vars
    /\ [](\A h \in Ids :
             command[h] = "Keep" =>
                 /\ Cardinality(CallsOf("rm", h)) <= 1
                 /\ pc[h] = "consumed" => Cardinality(CallsOf("rm", h)) = 1)

\* a Keep handle removed by rm() and dropped: one rm call, the container gone
KeepHandleRemovedOnce ==
    \E h \in Ids :
        /\ command[h] = "Keep" /\ pc[h] = "dropped"
        /\ Cardinality(CallsOf("rm", h)) = 1
        /\ sandbox[h] = "removed"

====
